---------------------------- MODULE Spec2Model ----------------------------
(***************************************************************************)
(* Model of interactive-experiments/Part-II-target-functions.ipynb:        *)
(* the Bernstein evaluator and its derivative, their tensor products, the  *)
(* integrated sign function, the interactive plot of its tensor product    *)
(* and the weighted-combination cell.                                      *)
(*                                                                         *)
(* Real values are exact rationals <<p, q>> with q > 0 in lowest terms;    *)
(* floating-point rounding is not modelled.  A numpy array is a function   *)
(* from its index set to rationals (1..R for a vector, (1..R) \X (1..R)    *)
(* for a grid, 1..1 for a scalar).                                         *)
(***************************************************************************)
EXTENDS Integers, Sequences, FiniteSets, TLC

VARIABLES
    domain,     \* global `domain`: plotting extent, a list of 2 or 4 numbers
    xgrid,      \* global `xgrid` read by plot_signpoly2d
    ygrid,      \* global `ygrid` read by plot_signpoly2d
    n1s,        \* value of n1_slider
    n2s,        \* value of n2_slider
    c1s,        \* numerator of c1_slider's value, in units of 1/CStepDen
    c2s,        \* numerator of c2_slider's value, in units of 1/CStepDen
    rendered,   \* content of the interactive_output widget
    zs,         \* global `zs`
    zs1,        \* global `zs1`
    zs2,        \* global `zs2`
    call,       \* last direct call of a library function (name and arguments)
    ret         \* what that call returned or raised

vars == <<domain, xgrid, ygrid, n1s, n2s, c1s, c2s, rendered, zs, zs1, zs2, call, ret>>

nbVars == <<domain, xgrid, ygrid, n1s, n2s, c1s, c2s, rendered, zs, zs1, zs2>>

(***************************************************************************)
(* Bounds                                                                  *)
(***************************************************************************)
\* number of sample points per axis (the notebook uses resolution = 100)
resolution == 3
\* slider step of the FloatSliders is 1/CStepDen
CStepDen == 1
\* largest degree n of a direct Bernstein call at a point of [0,1]
MaxN == 10
\* largest degree n of a direct Bernstein call at a point outside [0,1]
MaxNOut == 3
\* largest degree per axis of a direct call of the 2D variants
MaxN2d == 2
\* largest order of a direct signpoly call
MaxOrder == 4

(***************************************************************************)
(* Program constants                                                       *)
(***************************************************************************)
\* IntSlider(1.0, min=0.0, max=5.0)
SliderMinN == 0
SliderMaxN == 5
SliderDefaultN == 1
\* FloatSlider(0.0, min=-1.0, max=1.0)
SliderMinC == -1
SliderMaxC == 1
SliderDefaultC == 0

(***************************************************************************)
(* Rational arithmetic                                                     *)
(***************************************************************************)
Abs(a) == IF a < 0 THEN -a ELSE a

RECURSIVE GCD(_, _)
GCD(a, b) == IF b = 0 THEN a ELSE GCD(b, a % b)

\* the rational p/q (q # 0) in lowest terms with positive denominator
Rat(p, q) ==
    LET g == GCD(Abs(p), Abs(q))
        s == IF q < 0 THEN -1 ELSE 1
    IN  <<s * (p \div g), s * (q \div g)>>

Int2R(a) == <<a, 1>>

RAdd(x, y) ==
    LET l == (x[2] \div GCD(x[2], y[2])) * y[2]
    IN  Rat(x[1] * (l \div x[2]) + y[1] * (l \div y[2]), l)

RNeg(x) == <<-x[1], x[2]>>

RSub(x, y) == RAdd(x, RNeg(y))

RMul(x, y) ==
    LET g1 == GCD(Abs(x[1]), y[2])
        g2 == GCD(Abs(y[1]), x[2])
    IN  Rat((x[1] \div g1) * (y[1] \div g2), (x[2] \div g2) * (y[2] \div g1))

\* 1/m for a positive integer m
RInv(m) == <<1, m>>

RLe(x, y) == x[1] * y[2] <= y[1] * x[2]

RAbs(x) == <<Abs(x[1]), x[2]>>

\* x**k and np.power(x, k) for an integer k >= 0; 0**0 is 1
RECURSIVE IPow(_, _)
IPow(a, k) == IF k = 0 THEN 1 ELSE a * IPow(a, k - 1)

RPow(x, k) == <<IPow(x[1], k), IPow(x[2], k)>>

\* np.sign: -1, 0 or +1
RSign(x) == IF x[1] > 0 THEN <<1, 1>> ELSE IF x[1] < 0 THEN <<-1, 1>> ELSE <<0, 1>>

\* np.math.factorial
RECURSIVE factorial(_)
factorial(n) == IF n = 0 THEN 1 ELSE n * factorial(n - 1)

\* scipy.special.binom for integers 0 <= k <= n: with kx the smaller of k and
\* n - k, the product of (i + n - kx) over the product of i, for i = 1..kx
RECURSIVE BinomNum(_, _, _)
BinomNum(n, kx, i) == IF i = 0 THEN 1 ELSE (i + n - kx) * BinomNum(n, kx, i - 1)

binom(n, k) ==
    LET kx == IF 2 * k > n /\ n > 0 THEN n - k ELSE k
    IN  Rat(BinomNum(n, kx, kx), factorial(kx))

(***************************************************************************)
(* Arrays                                                                  *)
(***************************************************************************)
Scalar(x) == <<x>>

AMul(a, b) == [i \in DOMAIN a |-> RMul(a[i], b[i])]
ASub(a, b) == [i \in DOMAIN a |-> RSub(a[i], b[i])]
AAdd(a, b) == [i \in DOMAIN a |-> RAdd(a[i], b[i])]
AScale(c, a) == [i \in DOMAIN a |-> RMul(c, a[i])]
APow(a, k) == [i \in DOMAIN a |-> RPow(a[i], k)]
ASign(a) == [i \in DOMAIN a |-> RSign(a[i])]
\* AShift without the centring term: 2*(a - c)
AShiftNoCentre(a, c) == [i \in DOMAIN a |-> RMul(<<2, 1>>, RSub(a[i], c))]

\* 2*(a - c) - 1
AShift(a, c) == [i \in DOMAIN a |-> RSub(RMul(<<2, 1>>, RSub(a[i], c)), <<1, 1>>)]

\* np.linspace(a, b, num)
linspace(a, b, num) ==
    [i \in 1..num |-> RAdd(a, RMul(Rat(i - 1, num - 1), RSub(b, a)))]

\* np.meshgrid(xs, ys): xgrid[i, j] = xs[j], ygrid[i, j] = ys[i]
meshgridX(xs, ys) == [p \in (DOMAIN ys) \X (DOMAIN xs) |-> xs[p[2]]]
meshgridY(xs, ys) == [p \in (DOMAIN ys) \X (DOMAIN xs) |-> ys[p[1]]]

(***************************************************************************)
(* Results of a call: a value, or a raised AssertionError                  *)
(***************************************************************************)
Ok(v) == [ok |-> TRUE, val |-> v]
Raise == [ok |-> FALSE, val |-> "AssertionError"]

(***************************************************************************)
(* Bernstein evaluator                                                     *)
(***************************************************************************)
\* bernstein without the binomial factor
bernsteinNoBinom(x, k, n) ==
    IF ~(0 <= k /\ k <= n) THEN Raise
    ELSE Ok([i \in DOMAIN x |->
               RMul(RPow(x[i], k), RPow(RSub(<<1, 1>>, x[i]), n - k))])

\* bernstein with the exponent n in place of n - k
bernsteinWrongExp(x, k, n) ==
    IF ~(0 <= k /\ k <= n) THEN Raise
    ELSE Ok([i \in DOMAIN x |->
               RMul(RMul(binom(n, k), RPow(x[i], k)),
                    RPow(RSub(<<1, 1>>, x[i]), n))])

\* bernstein that clamps k into 0..n instead of checking it
bernsteinClamped(x, k, n) ==
    LET kc == IF k < 0 THEN 0 ELSE IF k > n THEN n ELSE k
    IN  Ok([i \in DOMAIN x |->
              RMul(RMul(binom(n, kc), RPow(x[i], kc)),
                   RPow(RSub(<<1, 1>>, x[i]), n - kc))])

\* def bernstein(x, k, n)
bernstein(x, k, n) ==
    IF ~(0 <= k /\ k <= n) THEN Raise
    ELSE Ok([i \in DOMAIN x |->
               RMul(RMul(binom(n, k), RPow(x[i], k)),
                    RPow(RSub(<<1, 1>>, x[i]), n - k))])

\* Dbernstein without the factor n
DbernsteinNoFactor(x, k, n) ==
    IF ~(0 <= k /\ k <= n) THEN Raise
    ELSE LET b1 == IF n = 0 \/ k = 0 THEN Ok(AScale(<<0, 1>>, x))
                   ELSE bernstein(x, k - 1, n - 1)
             b2 == IF n = 0 \/ k = n THEN Ok(AScale(<<0, 1>>, x))
                   ELSE bernstein(x, k, n - 1)
         IN  IF ~b1.ok THEN b1
             ELSE IF ~b2.ok THEN b2
             ELSE Ok(ASub(b1.val, b2.val))

\* Dbernstein whose second term is guarded by n = 0 alone
DbernsteinUnguarded(x, k, n) ==
    IF ~(0 <= k /\ k <= n) THEN Raise
    ELSE LET b1 == IF n = 0 \/ k = 0 THEN Ok(AScale(<<0, 1>>, x))
                   ELSE bernstein(x, k - 1, n - 1)
             b2 == IF n = 0 THEN Ok(AScale(<<0, 1>>, x))
                   ELSE bernstein(x, k, n - 1)
         IN  IF ~b1.ok THEN b1
             ELSE IF ~b2.ok THEN b2
             ELSE Ok(AScale(Int2R(n), ASub(b1.val, b2.val)))

\* def Dbernstein(x, k, n); an exception raised by a lower-order call propagates
Dbernstein(x, k, n) ==
    IF ~(0 <= k /\ k <= n) THEN Raise
    ELSE LET b1 == IF n = 0 \/ k = 0 THEN Ok(AScale(<<0, 1>>, x))
                   ELSE bernstein(x, k - 1, n - 1)
             b2 == IF n = 0 \/ k = n THEN Ok(AScale(<<0, 1>>, x))
                   ELSE bernstein(x, k, n - 1)
         IN  IF ~b1.ok THEN b1
             ELSE IF ~b2.ok THEN b2
             ELSE Ok(AScale(Int2R(n), ASub(b1.val, b2.val)))

\* def bernstein2d(xgrid, ygrid, k, n); k and n are pairs, k[1] is Python's k[0]
bernstein2d(xg, yg, k, n) ==
    IF ~((\A a \in 1..2 : 0 <= k[a]) /\ (\A a \in 1..2 : k[a] <= n[a])) THEN Raise
    ELSE LET bx == bernstein(xg, k[1], n[1])
             by == bernstein(yg, k[2], n[2])
         IN  IF ~bx.ok THEN bx
             ELSE IF ~by.ok THEN by
             ELSE Ok(AMul(bx.val, by.val))

\* def Dbernstein2d(xgrid, ygrid, k, n): the pair (Dx, Dy)
Dbernstein2d(xg, yg, k, n) ==
    IF ~((\A a \in 1..2 : 0 <= k[a]) /\ (\A a \in 1..2 : k[a] <= n[a])) THEN Raise
    ELSE LET dx == Dbernstein(xg, k[1], n[1])
             by == bernstein(yg, k[2], n[2])
             bx == bernstein(xg, k[1], n[1])
             dy == Dbernstein(yg, k[2], n[2])
         IN  IF ~dx.ok THEN dx
             ELSE IF ~by.ok THEN by
             ELSE IF ~bx.ok THEN bx
             ELSE IF ~dy.ok THEN dy
             ELSE Ok(<<AMul(dx.val, by.val), AMul(bx.val, dy.val)>>)

(***************************************************************************)
(* Integrated sign function                                                *)
(***************************************************************************)
\* signpoly with a two-valued sign (+1 at 0)
signpolyTwoValued(x, n) ==
    AMul(AScale(RInv(factorial(n)), APow(x, n)),
         [i \in DOMAIN x |-> IF x[i][1] >= 0 THEN <<1, 1>> ELSE <<-1, 1>>])

\* signpoly with |x|^n in place of x^n
signpolyAbs(x, n) ==
    AMul(AScale(RInv(factorial(n)), APow([i \in DOMAIN x |-> RAbs(x[i])], n)), ASign(x))

\* def signpoly(x, n): 1/np.math.factorial(n)*np.power(x, n)*np.sign(x)
signpoly(x, n) ==
    AMul(AScale(RInv(factorial(n)), APow(x, n)), ASign(x))

\* body of plot_signpoly2d up to the imshow call: the array zs
plotZs(xg, yg, n1, n2, c1, c2) ==
    AMul(signpoly(AShift(xg, c1), n1), signpoly(AShift(yg, c2), n2))

\* vscale = 1/np.math.factorial(n1)/np.math.factorial(n2)
vscale(n1, n2) == Rat(1, factorial(n1) * factorial(n2))

\* plt.imshow(zs, extent=domain, origin='lower', vmin=-vscale, vmax=vscale):
\* matplotlib unpacks extent into (xmin, xmax, ymin, ymax) and raises a
\* ValueError on a list of any other length; interactive_output shows the
\* traceback in place of the image
imshow(img, extent, vs) ==
    IF Len(extent) = 4
    THEN [ok |-> TRUE, img |-> img, extent |-> extent, vscale |-> vs]
    ELSE [ok |-> FALSE, img |-> <<>>, extent |-> extent, vscale |-> vs]

\* def plot_signpoly2d(n1, n2, c1, c2), reading the globals xgrid, ygrid, domain
plot_signpoly2d(xg, yg, dom, n1, n2, c1, c2) ==
    imshow(plotZs(xg, yg, n1, n2, c1, c2), dom, vscale(n1, n2))

(***************************************************************************)
(* Notebook state                                                          *)
(***************************************************************************)
\* domain = [0.0, 1.0]
domain1d == <<Int2R(0), Int2R(1)>>
\* domain = [0.0, 1.0, 0.0, 1.0]
domain2d == <<Int2R(0), Int2R(1), Int2R(0), Int2R(1)>>

\* xs = np.linspace(domain[0], domain[1], resolution); ys likewise (it too
\* reads domain[0] and domain[1])
gridXs(dom) == linspace(dom[1], dom[2], resolution)
gridYs(dom) == linspace(dom[1], dom[2], resolution)

\* the value of a FloatSlider at position c (in units of the slider step)
sliderC(c) == Rat(c, CStepDen)

\* positions of the sliders
NSliderValues == SliderMinN .. SliderMaxN
CSliderValues == (SliderMinC * CStepDen) .. (SliderMaxC * CStepDen)

\* the weighted-combination cell's literals
k1 == 2
k2 == 3
n1 == 3
n2 == 4
m1 == 2
m2 == 3
\* c1, c2 = 0.4, 0.6
c1 == Rat(4, 10)
c2 == Rat(6, 10)
w1 == Int2R(2)
w2 == Int2R(2 * factorial(m1) * factorial(m2))

\* zs1 = bernstein2d(xgrid, ygrid, (k1, k2), (n1, n2))
weightedZs1(xg, yg) == bernstein2d(xg, yg, <<k1, k2>>, <<n1, n2>>).val
\* zs2 = signpoly(xgrid-c1, m1)*signpoly(ygrid-c2, m2)
weightedZs2(xg, yg) ==
    AMul(signpoly([i \in DOMAIN xg |-> RSub(xg[i], c1)], m1),
         signpoly([i \in DOMAIN yg |-> RSub(yg[i], c2)], m2))
\* zs = w1 * zs1 + w2 * zs2
weightedZs(a, b) == AAdd(AScale(w1, a), AScale(w2, b))

NoCall == [fn |-> "none", x |-> <<>>, y |-> <<>>, k |-> 0, n |-> 0]

\* the kernel once every cell has run once, top to bottom, with the sliders
\* untouched
Init ==
    /\ domain = domain2d
    /\ xgrid = meshgridX(gridXs(domain2d), gridYs(domain2d))
    /\ ygrid = meshgridY(gridXs(domain2d), gridYs(domain2d))
    /\ n1s = SliderDefaultN
    /\ n2s = SliderDefaultN
    /\ c1s = SliderDefaultC
    /\ c2s = SliderDefaultC
    /\ rendered = plot_signpoly2d(meshgridX(gridXs(domain2d), gridYs(domain2d)),
                                  meshgridY(gridXs(domain2d), gridYs(domain2d)),
                                  domain2d, SliderDefaultN, SliderDefaultN,
                                  sliderC(SliderDefaultC), sliderC(SliderDefaultC))
    /\ zs1 = weightedZs1(meshgridX(gridXs(domain2d), gridYs(domain2d)),
                         meshgridY(gridXs(domain2d), gridYs(domain2d)))
    /\ zs2 = weightedZs2(meshgridX(gridXs(domain2d), gridYs(domain2d)),
                         meshgridY(gridXs(domain2d), gridYs(domain2d)))
    /\ zs = weightedZs(zs1, zs2)
    /\ call = NoCall
    /\ ret = Ok(<<>>)

(***************************************************************************)
(* Cells run again, in any order                                           *)
(***************************************************************************)
\* the cell plotting the 1D Bernstein polynomials and their derivatives
CellBernsteinPlots ==
    /\ domain' = domain1d
    /\ UNCHANGED <<xgrid, ygrid, n1s, n2s, c1s, c2s, rendered, zs, zs1, zs2, call, ret>>

\* the cell plotting the 2D Bernstein polynomial for n = [3, 4], k = [2, 3]
CellBernstein2dPlots ==
    /\ domain' = domain2d
    /\ xgrid' = meshgridX(gridXs(domain2d), gridYs(domain2d))
    /\ ygrid' = meshgridY(gridXs(domain2d), gridYs(domain2d))
    /\ zs' = bernstein2d(xgrid', ygrid', <<2, 3>>, <<3, 4>>).val
    /\ UNCHANGED <<n1s, n2s, c1s, c2s, rendered, zs1, zs2, call, ret>>

\* the cell plotting the shifted integrated sign functions
CellSignpolyPlots ==
    /\ domain' = domain1d
    /\ UNCHANGED <<xgrid, ygrid, n1s, n2s, c1s, c2s, rendered, zs, zs1, zs2, call, ret>>

\* the cell of the interactive plot: new grid, new sliders at their defaults,
\* and interactive_output draws once at once
CellInteractive ==
    /\ domain' = domain2d
    /\ xgrid' = meshgridX(gridXs(domain2d), gridYs(domain2d))
    /\ ygrid' = meshgridY(gridXs(domain2d), gridYs(domain2d))
    /\ n1s' = SliderDefaultN
    /\ n2s' = SliderDefaultN
    /\ c1s' = SliderDefaultC
    /\ c2s' = SliderDefaultC
    /\ rendered' = plot_signpoly2d(xgrid', ygrid', domain', n1s', n2s',
                                   sliderC(c1s'), sliderC(c2s'))
    /\ UNCHANGED <<zs, zs1, zs2, call, ret>>

\* the weighted-combination cell; its n1, n2, c1, c2 are globals, which the
\* parameters of plot_signpoly2d shadow
CellWeighted ==
    /\ domain' = domain2d
    /\ xgrid' = meshgridX(gridXs(domain2d), gridYs(domain2d))
    /\ ygrid' = meshgridY(gridXs(domain2d), gridYs(domain2d))
    /\ zs1' = weightedZs1(xgrid', ygrid')
    /\ zs2' = weightedZs2(xgrid', ygrid')
    /\ zs' = weightedZs(zs1', zs2')
    /\ UNCHANGED <<n1s, n2s, c1s, c2s, rendered, call, ret>>

(***************************************************************************)
(* Slider changes: the observer calls plot_signpoly2d with the four values *)
(***************************************************************************)
Redraw ==
    rendered' = plot_signpoly2d(xgrid, ygrid, domain, n1s', n2s',
                                sliderC(c1s'), sliderC(c2s'))

SlideN1 ==
    /\ \E v \in NSliderValues \ {n1s} : n1s' = v
    /\ UNCHANGED <<n2s, c1s, c2s>>
    /\ Redraw
    /\ UNCHANGED <<domain, xgrid, ygrid, zs, zs1, zs2, call, ret>>

SlideN2 ==
    /\ \E v \in NSliderValues \ {n2s} : n2s' = v
    /\ UNCHANGED <<n1s, c1s, c2s>>
    /\ Redraw
    /\ UNCHANGED <<domain, xgrid, ygrid, zs, zs1, zs2, call, ret>>

SlideC1 ==
    /\ \E v \in CSliderValues \ {c1s} : c1s' = v
    /\ UNCHANGED <<n1s, n2s, c2s>>
    /\ Redraw
    /\ UNCHANGED <<domain, xgrid, ygrid, zs, zs1, zs2, call, ret>>

SlideC2 ==
    /\ \E v \in CSliderValues \ {c2s} : c2s' = v
    /\ UNCHANGED <<n1s, n2s, c1s>>
    /\ Redraw
    /\ UNCHANGED <<domain, xgrid, ygrid, zs, zs1, zs2, call, ret>>

Next ==
    \/ CellBernsteinPlots
    \/ CellBernstein2dPlots
    \/ CellSignpolyPlots
    \/ CellInteractive
    \/ CellWeighted
    \/ SlideN1
    \/ SlideN2
    \/ SlideC1
    \/ SlideC2

Spec == Init /\ [][Next]_vars

(***************************************************************************)
(* Direct calls of the library functions                                   *)
(***************************************************************************)
\* sample points i/(resolution-1), inside and on both sides of [0,1]
Points == {Rat(i, resolution - 1) : i \in -(resolution - 1) .. 2 * (resolution - 1)}
InUnit(x) == RLe(Int2R(0), x) /\ RLe(x, Int2R(1))

\* 1D arguments: every sample point as a scalar, and the array xs
Args1d == {Scalar(p) : p \in Points} \cup {gridXs(domain1d)}
AllInUnit(x) == \A i \in DOMAIN x : InUnit(x[i])
DegreesFor(x) == 0 .. (IF AllInUnit(x) THEN MaxN ELSE MaxNOut)

CallBernstein ==
    /\ call.fn = "none"
    /\ \E x \in Args1d : \E n \in DegreesFor(x) : \E k \in -1 .. n + 1 :
          /\ call' = [fn |-> "bernstein", x |-> x, y |-> <<>>, k |-> k, n |-> n]
          /\ ret' = bernstein(x, k, n)
    /\ UNCHANGED nbVars

CallDbernstein ==
    /\ call.fn = "none"
    /\ \E x \in Args1d : \E n \in DegreesFor(x) : \E k \in -1 .. n + 1 :
          /\ call' = [fn |-> "Dbernstein", x |-> x, y |-> <<>>, k |-> k, n |-> n]
          /\ ret' = Dbernstein(x, k, n)
    /\ UNCHANGED nbVars

CallBernstein2d ==
    /\ call.fn = "none"
    /\ \E k \in (-1 .. MaxN2d + 1) \X (-1 .. MaxN2d + 1) :
       \E n \in (0 .. MaxN2d) \X (0 .. MaxN2d) :
          /\ call' = [fn |-> "bernstein2d", x |-> xgrid, y |-> ygrid, k |-> k, n |-> n]
          /\ ret' = bernstein2d(xgrid, ygrid, k, n)
    /\ UNCHANGED nbVars

CallDbernstein2d ==
    /\ call.fn = "none"
    /\ \E k \in (-1 .. MaxN2d + 1) \X (-1 .. MaxN2d + 1) :
       \E n \in (0 .. MaxN2d) \X (0 .. MaxN2d) :
          /\ call' = [fn |-> "Dbernstein2d", x |-> xgrid, y |-> ygrid, k |-> k, n |-> n]
          /\ ret' = Dbernstein2d(xgrid, ygrid, k, n)
    /\ UNCHANGED nbVars

CallSignpoly ==
    /\ call.fn = "none"
    /\ \E x \in Args1d : \E n \in 0 .. MaxOrder :
          /\ call' = [fn |-> "signpoly", x |-> x, y |-> <<>>, k |-> 0, n |-> n]
          /\ ret' = Ok(signpoly(x, n))
    /\ UNCHANGED nbVars

\* the call is over and its result consumed; the next call starts afresh
Return ==
    /\ call.fn # "none"
    /\ call' = NoCall
    /\ ret' = Ok(<<>>)
    /\ UNCHANGED nbVars

NextLib ==
    \/ CallBernstein
    \/ CallDbernstein
    \/ CallBernstein2d
    \/ CallDbernstein2d
    \/ CallSignpoly
    \/ Return

SpecLib == Init /\ [][NextLib]_vars

(***************************************************************************)
(* Reference definitions used by the properties                            *)
(***************************************************************************)
\* the binomial coefficient, by Pascal's rule
RECURSIVE Choose(_, _)
Choose(n, k) ==
    IF k < 0 \/ k > n THEN 0
    ELSE IF k = 0 \/ k = n THEN 1
    ELSE Choose(n - 1, k - 1) + Choose(n - 1, k)

\* C(n,k) * x^k * (1-x)^(n-k) for x = p/q, over the common denominator q^n
BernsteinPoly(x, k, n) ==
    Rat(Choose(n, k) * IPow(x[1], k) * IPow(x[2] - x[1], n - k), IPow(x[2], n))

\* C(n,k) * (k * x^(k-1) * (1-x)^(n-k) - (n-k) * x^k * (1-x)^(n-k-1)); a term
\* whose factor k or n-k is zero is absent
BernsteinDerivative(x, k, n) ==
    LET omx == RSub(<<1, 1>>, x)
        t1 == IF k = 0 THEN <<0, 1>>
              ELSE RMul(Int2R(k), RMul(RPow(x, k - 1), RPow(omx, n - k)))
        t2 == IF k = n THEN <<0, 1>>
              ELSE RMul(Int2R(n - k), RMul(RPow(x, k), RPow(omx, n - k - 1)))
    IN  RMul(Int2R(Choose(n, k)), RSub(t1, t2))

\* h(n)(t) = t^n/n! for t > 0, -(t^n)/n! for t < 0, 0 at t = 0
IntegratedSign(t, n) ==
    IF t[1] = 0 THEN <<0, 1>>
    ELSE IF t[1] > 0 THEN Rat(IPow(t[1], n), IPow(t[2], n) * factorial(n))
    ELSE Rat(-IPow(t[1], n), IPow(t[2], n) * factorial(n))

\* h(nx)(x - cx) * h(ny)(y - cy) on a grid
IntegratedSign2d(xg, yg, nx, ny, cx, cy) ==
    [p \in DOMAIN xg |-> RMul(IntegratedSign(RSub(xg[p], cx), nx),
                              IntegratedSign(RSub(yg[p], cy), ny))]

\* the sum of b[j].val[i] for j = 0..m of the Bernstein polynomials of degree n
RECURSIVE BernsteinSum(_, _, _, _)
BernsteinSum(x, i, n, m) ==
    IF m < 0 THEN <<0, 1>>
    ELSE RAdd(BernsteinSum(x, i, n, m - 1), bernstein(x, m, n).val[i])

ValidIndex(k, n) == 0 <= k /\ k <= n
ValidIndex2d(k, n) == ValidIndex(k[1], n[1]) /\ ValidIndex(k[2], n[2])

\* the unit grid every 2D cell builds
unitX == meshgridX(gridXs(domain2d), gridYs(domain2d))
unitY == meshgridY(gridXs(domain2d), gridYs(domain2d))

(***************************************************************************)
(* Properties                                                              *)
(***************************************************************************)
\* C1: for 0 <= k <= n and x in [0,1], bernstein(x, k, n) returns exactly
\* C(n,k) * x^k * (1-x)^(n-k), elementwise; bernstein(0.5, 2, 3) = 0.375
C1_BernsteinValue ==
    (call.fn = "bernstein" /\ ValidIndex(call.k, call.n) /\ AllInUnit(call.x)) =>
        /\ ret.ok
        /\ DOMAIN ret.val = DOMAIN call.x
        /\ \A i \in DOMAIN call.x : ret.val[i] = BernsteinPoly(call.x[i], call.k, call.n)
        /\ (call.x = Scalar(<<1, 2>>) /\ call.k = 2 /\ call.n = 3) => ret.val[1] = <<3, 8>>

C1_Witness ==
    /\ call.fn = "bernstein"
    /\ call.x = gridXs(domain1d)
    /\ call.k = 2
    /\ call.n = 3
    /\ ret.ok
    /\ ret.val[2] = <<3, 8>>

\* C2: with k < 0 or k > n, bernstein and Dbernstein raise the precondition
\* error and return nothing; bernstein2d and Dbernstein2d do so whenever the
\* index pair of either axis violates 0 <= k <= n
C2_PreconditionError ==
    /\ (call.fn \in {"bernstein", "Dbernstein"} /\ ~ValidIndex(call.k, call.n)) =>
           (~ret.ok /\ ret = Raise)
    /\ (call.fn \in {"bernstein2d", "Dbernstein2d"} /\ ~ValidIndex2d(call.k, call.n)) =>
           (~ret.ok /\ ret = Raise)

C2_Witness ==
    /\ call.fn = "Dbernstein2d"
    /\ ValidIndex(call.k[1], call.n[1])
    /\ call.k[2] > call.n[2]
    /\ ~ret.ok

\* C3: partition of unity: for x in [0,1] and a degree n (0 <= n <= 10), the
\* sum over k = 0..n of bernstein(x, k, n) is 1
C3_PartitionOfUnity ==
    (call.fn = "bernstein" /\ AllInUnit(call.x)) =>
        \A i \in DOMAIN call.x : BernsteinSum(call.x, i, call.n, call.n) = <<1, 1>>

C3_Witness ==
    /\ call.fn = "bernstein"
    /\ call.x = gridXs(domain1d)
    /\ call.n = 10
    /\ call.k = 4
    /\ ret.ok

\* C4: for 0 <= k <= n and every x, Dbernstein(x, k, n) is the exact derivative
\* of the Bernstein polynomial, boundary cases k = 0, k = n and n = 0 included
C4_DerivativeIdentity ==
    (call.fn = "Dbernstein" /\ ValidIndex(call.k, call.n)) =>
        /\ ret.ok
        /\ \A i \in DOMAIN call.x :
              ret.val[i] = BernsteinDerivative(call.x[i], call.k, call.n)

C4_Witness ==
    /\ call.fn = "Dbernstein"
    /\ call.n = 3
    /\ call.k = 3
    /\ ~AllInUnit(call.x)
    /\ ret.ok
    /\ ret.val[1] # <<0, 1>>

\* C5: signpoly(x, n) is (1/n!) * x^n * sign(x) with the three-valued signum;
\* it is 0 at x = 0 for n >= 1, and -1, 0, +1 for x < 0, x = 0, x > 0 when n = 0
C5_SignpolyValue ==
    call.fn = "signpoly" =>
        \A i \in DOMAIN call.x :
            /\ ret.val[i] = IntegratedSign(call.x[i], call.n)
            /\ (call.n >= 1 /\ call.x[i][1] = 0) => ret.val[i] = <<0, 1>>
            /\ call.n = 0 =>
                  ret.val[i] = (IF call.x[i][1] < 0 THEN <<-1, 1>>
                                ELSE IF call.x[i][1] = 0 THEN <<0, 1>> ELSE <<1, 1>>)

C5_Witness ==
    /\ call.fn = "signpoly"
    /\ call.n = 0
    /\ call.x = Scalar(<<0, 1>>)
    /\ ret.val[1] = <<0, 1>>

\* C6: symmetry: signpoly(-x, n) = -signpoly(x, n) * (-1)^n
C6_SignpolySymmetry ==
    call.fn = "signpoly" =>
        LET neg == signpoly([i \in DOMAIN call.x |-> RNeg(call.x[i])], call.n)
        IN  \A i \in DOMAIN call.x :
                neg[i] = RMul(RNeg(ret.val[i]), Int2R(IPow(-1, call.n)))

C6_Witness ==
    /\ call.fn = "signpoly"
    /\ call.n = 3
    /\ Len(call.x) = 1
    /\ call.x[1][1] < 0
    /\ ret.val[1][1] > 0

\* C7 as stated: for every slider setting and every grid point the plotted
\* value satisfies |zs| <= 1/(n1! * n2!), the colour-scale bound
C7_ColourScaleBoundsPlot ==
    rendered.ok =>
        \A p \in DOMAIN rendered.img : RLe(RAbs(rendered.img[p]), vscale(n1s, n2s))

\* C7 amended: with both shifts at zero, |zs| <= 1/(n1! * n2!) at every grid
\* point, for every setting of the order sliders
C7_ColourScaleBoundsUnshiftedPlot ==
    (rendered.ok /\ c1s = 0 /\ c2s = 0) =>
        \A p \in DOMAIN rendered.img : RLe(RAbs(rendered.img[p]), rendered.vscale)

C7_Witness ==
    /\ rendered.ok
    /\ c1s = 0
    /\ c2s = 0
    /\ n1s = 5
    /\ n2s = 4
    /\ \E p \in DOMAIN rendered.img : RAbs(rendered.img[p]) = rendered.vscale

\* C8: what the plot shows is determined by the current slider values alone:
\* it is what the first draw at these values showed, whatever cells ran and
\* whatever was drawn in between
C8_RedrawDependsOnSlidersOnly ==
    rendered = plot_signpoly2d(unitX, unitY, domain2d, n1s, n2s, sliderC(c1s), sliderC(c2s))

\* C9: the interactive plot and the weighted-combination cell both evaluate
\* h(nx)(x - cx) * h(ny)(y - cy) with h(n)(t) = (1/n!) * t^n * sign(t)
C9_SameTensorProduct ==
    /\ zs2 = IntegratedSign2d(xgrid, ygrid, m1, m2, c1, c2)
    /\ rendered.ok =>
          rendered.img = IntegratedSign2d(xgrid, ygrid, n1s, n2s, sliderC(c1s), sliderC(c2s))

\* C10: with 0 <= k <= n (on both axes for the 2D variants) bernstein,
\* Dbernstein, bernstein2d and Dbernstein2d return a value: no precondition
\* error is raised, by the call or by a lower-order call it makes
C10_TotalOnValidIndices ==
    /\ (call.fn \in {"bernstein", "Dbernstein"} /\ ValidIndex(call.k, call.n)) => ret.ok
    /\ (call.fn \in {"bernstein2d", "Dbernstein2d"} /\ ValidIndex2d(call.k, call.n)) => ret.ok

C10_Witness ==
    /\ call.fn = "Dbernstein2d"
    /\ call.k = call.n
    /\ call.n[1] = 0
    /\ call.n[2] > 0
    /\ ret.ok

=============================================================================
